---- MODULE Spec2Model ----
(***************************************************************************)
(* Chess piece hierarchy of a.h: ChessPiece (colour, position, hasMoved,   *)
(* static colour counters), SlidingPiece (Rook, Bishop, Queen) and         *)
(* JumpingPiece (Knight), with the operations main.cpp drives: construct,  *)
(* copy, assign, destroy, moveTo, canMoveTo, getPossibleMoveCount,         *)
(* validateBoardState.                                                     *)
(***************************************************************************)
EXTENDS Integers, FiniteSets, Sequences, TLC

(***************************************************************************)
(* Bounds of the model.                                                    *)
(***************************************************************************)
\* number of object slots of the general specification Spec
MaxPieces == 2
\* how far beyond the board [0,7] the integer arguments of SpecSolo range
OutMargin == 1
\* depth of the stack of live objects in SpecCount
MaxLive == 17

\* the integer arguments tried on a single piece: every board coordinate and
\* OutMargin values on either side of the board
AllCoords == (0 - OutMargin) .. (7 + OutMargin)
\* the integer arguments tried when several pieces live together: a corner of
\* the board wide enough for every kind to move, and one value off each edge
TestCoords == {-1, 0, 1, 2, 8}

Ids == 1 .. MaxPieces

(***************************************************************************)
(* enum class Color and the concrete piece classes.                        *)
(***************************************************************************)
WHITE == "WHITE"
BLACK == "BLACK"
Color == {WHITE, BLACK}

Kinds == {"Rook", "Bishop", "Queen", "Knight"}
SlidingKinds == {"Rook", "Bishop", "Queen"}

(***************************************************************************)
(* What a call throws.  moveTo throws InvalidMoveException with one of two *)
(* messages; the constructor throws std::invalid_argument.                 *)
(***************************************************************************)
NoException == [type |-> "none", what |-> ""]
InvalidCoordinates ==
    [type |-> "std::invalid_argument", what |-> "coordinates must be in range 0-7"]
OutOfBounds ==
    [type |-> "InvalidMoveException", what |-> "coordinates outside the board (0-7)"]
IllegalMove ==
    [type |-> "InvalidMoveException", what |-> "piece cannot make such a move"]

\* what a query returned; NoRet after a call that returns nothing
NoRet == [op |-> "none"]

VARIABLES
    pieces,      \* live objects: id -> the object's fields
    whiteCount,  \* ChessPiece::whiteCount
    blackCount,  \* ChessPiece::blackCount
    thrown,      \* the exception the last call threw, NoException if none
    ret          \* the value the last call returned, NoRet if none

vars == <<pieces, whiteCount, blackCount, thrown, ret>>

Live == DOMAIN pieces

abs(n) == IF n < 0 THEN 0 - n ELSE n

(***************************************************************************)
(* Member initialisers of the constructors.                                *)
(***************************************************************************)
SlidingPiece(kind, col, posX, posY, horizontal, vertical, diagonal) ==
    [kind |-> kind, color |-> col, x |-> posX, y |-> posY, hasMoved |-> FALSE,
     canMoveHorizontally |-> horizontal,
     canMoveVertically |-> vertical,
     canMoveDiagonally |-> diagonal]

JumpingPiece(kind, col, posX, posY) ==
    [kind |-> kind, color |-> col, x |-> posX, y |-> posY, hasMoved |-> FALSE]

Rook(col, posX, posY) == SlidingPiece("Rook", col, posX, posY, TRUE, TRUE, FALSE)
Bishop(col, posX, posY) == SlidingPiece("Bishop", col, posX, posY, FALSE, FALSE, TRUE)
Queen(col, posX, posY) == SlidingPiece("Queen", col, posX, posY, TRUE, TRUE, TRUE)
Knight(col, posX, posY) == JumpingPiece("Knight", col, posX, posY)

NewPiece(kind, col, posX, posY) ==
    CASE kind = "Rook" -> Rook(col, posX, posY)
      [] kind = "Bishop" -> Bishop(col, posX, posY)
      [] kind = "Queen" -> Queen(col, posX, posY)
      [] kind = "Knight" -> Knight(col, posX, posY)

(***************************************************************************)
(* JumpingPiece::movePatterns and patternCount.                            *)
(***************************************************************************)
movePatterns ==
    << [deltaX |-> 2, deltaY |-> 1], [deltaX |-> 2, deltaY |-> -1],
       [deltaX |-> -2, deltaY |-> 1], [deltaX |-> -2, deltaY |-> -1],
       [deltaX |-> 1, deltaY |-> 2], [deltaX |-> 1, deltaY |-> -2],
       [deltaX |-> -1, deltaY |-> 2], [deltaX |-> -1, deltaY |-> -2] >>

patternCount == 8

(***************************************************************************)
(* canMoveTo.                                                              *)
(***************************************************************************)
\* SlidingPiece::canMoveTo without the test for the piece's own square
SlidingPiece_canMoveTo_NoOwnSquare(p, newX, newY) ==
    IF newX < 0 \/ newX > 7 \/ newY < 0 \/ newY > 7 THEN FALSE
    ELSE IF newY = p.y /\ p.canMoveHorizontally THEN TRUE
    ELSE IF newX = p.x /\ p.canMoveVertically THEN TRUE
    ELSE abs(newX - p.x) = abs(newY - p.y) /\ p.canMoveDiagonally

SlidingPiece_canMoveTo(p, newX, newY) ==
    IF newX = p.x /\ newY = p.y THEN FALSE
    ELSE IF newX < 0 \/ newX > 7 \/ newY < 0 \/ newY > 7 THEN FALSE
    ELSE IF newY = p.y /\ p.canMoveHorizontally THEN TRUE
    ELSE IF newX = p.x /\ p.canMoveVertically THEN TRUE
    ELSE LET deltaX == abs(newX - p.x)
             deltaY == abs(newY - p.y)
         IN  IF deltaX = deltaY /\ p.canMoveDiagonally THEN TRUE ELSE FALSE

\* the for loop of JumpingPiece::canMoveTo from index i (0-based, as in the code)
RECURSIVE PatternLoop(_, _, _, _)
PatternLoop(p, newX, newY, i) ==
    IF i < patternCount
    THEN LET targetX == p.x + movePatterns[i + 1].deltaX
             targetY == p.y + movePatterns[i + 1].deltaY
         IN  IF targetX = newX /\ targetY = newY
             THEN TRUE
             ELSE PatternLoop(p, newX, newY, i + 1)
    ELSE FALSE

\* JumpingPiece::canMoveTo without the test for the board's edge
JumpingPiece_canMoveTo_NoEdge(p, newX, newY) ==
    IF newX = p.x /\ newY = p.y THEN FALSE
    ELSE PatternLoop(p, newX, newY, 0)

JumpingPiece_canMoveTo(p, newX, newY) ==
    IF newX = p.x /\ newY = p.y THEN FALSE
    ELSE IF newX < 0 \/ newX > 7 \/ newY < 0 \/ newY > 7 THEN FALSE
    ELSE PatternLoop(p, newX, newY, 0)

\* the for loop of JumpingPiece::getPossibleMoveCount from index i with the
\* count so far
RECURSIVE CountLoop(_, _, _)
CountLoop(p, i, count) ==
    IF i < patternCount
    THEN LET targetX == p.x + movePatterns[i + 1].deltaX
             targetY == p.y + movePatterns[i + 1].deltaY
         IN  IF targetX >= 0 /\ targetX <= 7 /\ targetY >= 0 /\ targetY <= 7
             THEN CountLoop(p, i + 1, count + 1)
             ELSE CountLoop(p, i + 1, count)
    ELSE count

\* the loop of getPossibleMoveCount testing only the upper edge of the board
RECURSIVE CountLoop_UpperOnly(_, _, _)
CountLoop_UpperOnly(p, i, count) ==
    IF i < patternCount
    THEN LET targetX == p.x + movePatterns[i + 1].deltaX
             targetY == p.y + movePatterns[i + 1].deltaY
         IN  IF targetX <= 7 /\ targetY <= 7
             THEN CountLoop_UpperOnly(p, i + 1, count + 1)
             ELSE CountLoop_UpperOnly(p, i + 1, count)
    ELSE count

\* getPossibleMoveCount counting with the loop above
JumpingPiece_getPossibleMoveCount_UpperOnly(p) == CountLoop_UpperOnly(p, 0, 0)

JumpingPiece_getPossibleMoveCount(p) == CountLoop(p, 0, 0)

\* virtual dispatch of canMoveTo on the dynamic type
canMoveTo(p, newX, newY) ==
    IF p.kind \in SlidingKinds
    THEN SlidingPiece_canMoveTo(p, newX, newY)
    ELSE JumpingPiece_canMoveTo(p, newX, newY)

(***************************************************************************)
(* Static queries.                                                         *)
(***************************************************************************)
\* validateBoardState limiting the total instead of each colour
validateBoardState_Total == whiteCount + blackCount <= 32

validateBoardState == whiteCount <= 16 /\ blackCount <= 16

(***************************************************************************)
(* Initial state: no object constructed, both static counters 0.           *)
(***************************************************************************)
Init ==
    /\ pieces = << >>
    /\ whiteCount = 0
    /\ blackCount = 0
    /\ thrown = NoException
    /\ ret = NoRet

\* ++whiteCount or ++blackCount, by colour
Increment(col) ==
    /\ whiteCount' = IF col = WHITE THEN whiteCount + 1 ELSE whiteCount
    /\ blackCount' = IF col = WHITE THEN blackCount ELSE blackCount + 1

\* --whiteCount or --blackCount, by colour
Decrement(col) ==
    /\ whiteCount' = IF col = WHITE THEN whiteCount - 1 ELSE whiteCount
    /\ blackCount' = IF col = WHITE THEN blackCount ELSE blackCount - 1

\* the constructor without its coordinate check
Construct_NoCheck(i, kind, col, posX, posY) ==
    /\ i \notin Live
    /\ ret' = NoRet
    /\ thrown' = NoException
    /\ pieces' = (i :> NewPiece(kind, col, posX, posY)) @@ pieces
    /\ Increment(col)

\* the constructor with the upper edge off by one: 8 is accepted
Construct_OffByOne(i, kind, col, posX, posY) ==
    /\ i \notin Live
    /\ ret' = NoRet
    /\ IF posX < 0 \/ posX > 8 \/ posY < 0 \/ posY > 8
       THEN /\ thrown' = InvalidCoordinates
            /\ UNCHANGED <<pieces, whiteCount, blackCount>>
       ELSE /\ thrown' = NoException
            /\ pieces' = (i :> NewPiece(kind, col, posX, posY)) @@ pieces
            /\ Increment(col)

\* the constructor counting before it checks the coordinates
Construct_CountFirst(i, kind, col, posX, posY) ==
    /\ i \notin Live
    /\ ret' = NoRet
    /\ Increment(col)
    /\ IF posX < 0 \/ posX > 7 \/ posY < 0 \/ posY > 7
       THEN /\ thrown' = InvalidCoordinates
            /\ UNCHANGED pieces
       ELSE /\ thrown' = NoException
            /\ pieces' = (i :> NewPiece(kind, col, posX, posY)) @@ pieces

(***************************************************************************)
(* ChessPiece(Color, int, int) through a concrete class, into the free     *)
(* slot i.  A throwing constructor leaves no object and runs no destructor.*)
(***************************************************************************)
Construct(i, kind, col, posX, posY) ==
    /\ i \notin Live
    /\ ret' = NoRet
    /\ IF posX < 0 \/ posX > 7 \/ posY < 0 \/ posY > 7
       THEN /\ thrown' = InvalidCoordinates
            /\ UNCHANGED <<pieces, whiteCount, blackCount>>
       ELSE /\ thrown' = NoException
            /\ pieces' = (i :> NewPiece(kind, col, posX, posY)) @@ pieces
            /\ Increment(col)

\* the copy constructor starting the copy as unmoved
CopyConstruct_Fresh(j, i) ==
    /\ i \in Live
    /\ j \notin Live
    /\ pieces' = (j :> [pieces[i] EXCEPT !.hasMoved = FALSE]) @@ pieces
    /\ Increment(pieces[i].color)
    /\ thrown' = NoException
    /\ ret' = NoRet

(***************************************************************************)
(* ChessPiece(const ChessPiece&): the new object j is a copy of i.         *)
(***************************************************************************)
CopyConstruct(j, i) ==
    /\ i \in Live
    /\ j \notin Live
    /\ pieces' = (j :> pieces[i]) @@ pieces
    /\ Increment(pieces[i].color)
    /\ thrown' = NoException
    /\ ret' = NoRet

\* operator= that copies position and hasMoved but leaves the colour
Assign_KeepsColor(i, j) ==
    /\ i \in Live
    /\ j \in Live
    /\ IF i # j
       THEN /\ pieces' = [pieces EXCEPT ![i] =
                            [@ EXCEPT !.x = pieces[j].x,
                                      !.y = pieces[j].y,
                                      !.hasMoved = pieces[j].hasMoved]]
            /\ UNCHANGED <<whiteCount, blackCount>>
       ELSE UNCHANGED <<pieces, whiteCount, blackCount>>
    /\ thrown' = NoException
    /\ ret' = NoRet

(***************************************************************************)
(* ChessPiece::operator=: *i = *j through base-class references.           *)
(***************************************************************************)
Assign(i, j) ==
    /\ i \in Live
    /\ j \in Live
    /\ IF i # j
       THEN /\ pieces' = [pieces EXCEPT ![i] =
                            [@ EXCEPT !.color = pieces[j].color,
                                      !.x = pieces[j].x,
                                      !.y = pieces[j].y,
                                      !.hasMoved = pieces[j].hasMoved]]
            /\ whiteCount' = whiteCount
                               - (IF pieces[i].color = WHITE THEN 1 ELSE 0)
                               + (IF pieces[j].color = WHITE THEN 1 ELSE 0)
            /\ blackCount' = blackCount
                               - (IF pieces[i].color = WHITE THEN 0 ELSE 1)
                               + (IF pieces[j].color = WHITE THEN 0 ELSE 1)
       ELSE UNCHANGED <<pieces, whiteCount, blackCount>>
    /\ thrown' = NoException
    /\ ret' = NoRet

(***************************************************************************)
(* ~ChessPiece().                                                          *)
(***************************************************************************)
Destroy(i) ==
    /\ i \in Live
    /\ pieces' = [k \in Live \ {i} |-> pieces[k]]
    /\ Decrement(pieces[i].color)
    /\ thrown' = NoException
    /\ ret' = NoRet

\* moveTo that forgets hasMoved
MoveTo_KeepsUnmoved(i, newX, newY) ==
    /\ i \in Live
    /\ ret' = NoRet
    /\ UNCHANGED <<whiteCount, blackCount>>
    /\ IF newX < 0 \/ newX > 7 \/ newY < 0 \/ newY > 7
       THEN /\ thrown' = OutOfBounds
            /\ UNCHANGED pieces
       ELSE IF ~canMoveTo(pieces[i], newX, newY)
       THEN /\ thrown' = IllegalMove
            /\ UNCHANGED pieces
       ELSE /\ thrown' = NoException
            /\ pieces' = [pieces EXCEPT ![i] = [@ EXCEPT !.x = newX, !.y = newY]]

\* moveTo with its two checks in the other order
MoveTo_LegalityFirst(i, newX, newY) ==
    /\ i \in Live
    /\ ret' = NoRet
    /\ UNCHANGED <<whiteCount, blackCount>>
    /\ IF ~canMoveTo(pieces[i], newX, newY)
       THEN /\ thrown' = IllegalMove
            /\ UNCHANGED pieces
       ELSE IF newX < 0 \/ newX > 7 \/ newY < 0 \/ newY > 7
       THEN /\ thrown' = OutOfBounds
            /\ UNCHANGED pieces
       ELSE /\ thrown' = NoException
            /\ pieces' = [pieces EXCEPT ![i] =
                            [@ EXCEPT !.x = newX, !.y = newY, !.hasMoved = TRUE]]

\* moveTo that stores the target before it asks canMoveTo
MoveTo_StoresFirst(i, newX, newY) ==
    /\ i \in Live
    /\ ret' = NoRet
    /\ UNCHANGED <<whiteCount, blackCount>>
    /\ IF newX < 0 \/ newX > 7 \/ newY < 0 \/ newY > 7
       THEN /\ thrown' = OutOfBounds
            /\ UNCHANGED pieces
       ELSE LET q == [pieces[i] EXCEPT !.x = newX, !.y = newY]
            IN  IF ~canMoveTo(q, newX, newY)
                THEN /\ thrown' = IllegalMove
                     /\ pieces' = [pieces EXCEPT ![i] = q]
                ELSE /\ thrown' = NoException
                     /\ pieces' = [pieces EXCEPT ![i] = [q EXCEPT !.hasMoved = TRUE]]

\* moveTo on an object whose position is shared with its copies
MoveTo_Shared(i, newX, newY) ==
    /\ i \in Live
    /\ ret' = NoRet
    /\ UNCHANGED <<whiteCount, blackCount>>
    /\ IF newX < 0 \/ newX > 7 \/ newY < 0 \/ newY > 7
       THEN /\ thrown' = OutOfBounds
            /\ UNCHANGED pieces
       ELSE IF ~canMoveTo(pieces[i], newX, newY)
       THEN /\ thrown' = IllegalMove
            /\ UNCHANGED pieces
       ELSE /\ thrown' = NoException
            /\ pieces' = [k \in Live |->
                            IF /\ pieces[k].kind = pieces[i].kind
                               /\ pieces[k].x = pieces[i].x
                               /\ pieces[k].y = pieces[i].y
                            THEN [pieces[k] EXCEPT !.x = newX, !.y = newY, !.hasMoved = TRUE]
                            ELSE pieces[k]]

(***************************************************************************)
(* ChessPiece::moveTo.                                                     *)
(***************************************************************************)
MoveTo(i, newX, newY) ==
    /\ i \in Live
    /\ ret' = NoRet
    /\ UNCHANGED <<whiteCount, blackCount>>
    /\ IF newX < 0 \/ newX > 7 \/ newY < 0 \/ newY > 7
       THEN /\ thrown' = OutOfBounds
            /\ UNCHANGED pieces
       ELSE IF ~canMoveTo(pieces[i], newX, newY)
       THEN /\ thrown' = IllegalMove
            /\ UNCHANGED pieces
       ELSE /\ thrown' = NoException
            /\ pieces' = [pieces EXCEPT ![i] =
                            [@ EXCEPT !.x = newX, !.y = newY, !.hasMoved = TRUE]]

(***************************************************************************)
(* A call of canMoveTo on object i: pure, the result is kept in ret.       *)
(***************************************************************************)
CanMoveToCall(i, newX, newY) ==
    /\ i \in Live
    /\ ret' = [op |-> "canMoveTo", id |-> i, newX |-> newX, newY |-> newY,
               value |-> canMoveTo(pieces[i], newX, newY)]
    /\ thrown' = NoException
    /\ UNCHANGED <<pieces, whiteCount, blackCount>>

(***************************************************************************)
(* A call of getPossibleMoveCount on object i, a JumpingPiece: pure, the   *)
(* result is kept in ret.                                                  *)
(***************************************************************************)
GetPossibleMoveCountCall(i) ==
    /\ i \in Live
    /\ pieces[i].kind \notin SlidingKinds
    /\ ret' = [op |-> "getPossibleMoveCount", id |-> i,
               value |-> JumpingPiece_getPossibleMoveCount(pieces[i])]
    /\ thrown' = NoException
    /\ UNCHANGED <<pieces, whiteCount, blackCount>>

(***************************************************************************)
(* A call of the static validateBoardState.                                *)
(***************************************************************************)
ValidateCall ==
    /\ ret' = [op |-> "validateBoardState", value |-> validateBoardState]
    /\ thrown' = NoException
    /\ UNCHANGED <<pieces, whiteCount, blackCount>>

(***************************************************************************)
(* Spec: up to MaxPieces objects constructed, copied, assigned, moved and  *)
(* destroyed in any order.                                                 *)
(***************************************************************************)
Next ==
    \/ \E i \in Ids, kind \in Kinds, col \in Color, posX \in TestCoords, posY \in TestCoords :
          Construct(i, kind, col, posX, posY)
    \/ \E i \in Ids, j \in Ids : CopyConstruct(j, i)
    \/ \E i \in Ids, j \in Ids : Assign(i, j)
    \/ \E i \in Ids : Destroy(i)
    \/ \E i \in Ids, newX \in TestCoords, newY \in TestCoords : MoveTo(i, newX, newY)

Spec == Init /\ [][Next]_vars

(***************************************************************************)
(* SpecSolo: one object constructed, moved and destroyed, with every       *)
(* integer argument of AllCoords.                                          *)
(***************************************************************************)
NextSolo ==
    \/ \E kind \in Kinds, col \in Color, posX \in AllCoords, posY \in AllCoords :
          Construct(1, kind, col, posX, posY)
    \/ \E newX \in AllCoords, newY \in AllCoords : MoveTo(1, newX, newY)
    \/ Destroy(1)

SpecSolo == Init /\ [][NextSolo]_vars

(***************************************************************************)
(* SpecQuery: SpecSolo with canMoveTo and getPossibleMoveCount called on   *)
(* the object in between.                                                  *)
(***************************************************************************)
NextQuery ==
    \/ \E kind \in Kinds, col \in Color, posX \in AllCoords, posY \in AllCoords :
          Construct(1, kind, col, posX, posY)
    \/ \E newX \in AllCoords, newY \in AllCoords : MoveTo(1, newX, newY)
    \/ \E newX \in AllCoords, newY \in AllCoords : CanMoveToCall(1, newX, newY)
    \/ GetPossibleMoveCountCall(1)
    \/ Destroy(1)

SpecQuery == Init /\ [][NextQuery]_vars

(***************************************************************************)
(* SpecCount: objects pushed onto and popped from a container as in        *)
(* testMiniBoard, up to MaxLive of them, with validateBoardState queried   *)
(* in between.                                                             *)
(***************************************************************************)
Top == Cardinality(Live)

NextCount ==
    \/ \E col \in Color : Top < MaxLive /\ Construct(Top + 1, "Rook", col, 0, 0)
    \/ Top > 0 /\ Destroy(Top)
    \/ ValidateCall

SpecCount == Init /\ [][NextCount]_vars

(***************************************************************************)
(* Helpers of the properties.                                              *)
(***************************************************************************)
OnBoard(a, b) == a \in 0 .. 7 /\ b \in 0 .. 7

\* the capability profile each sliding class is documented to have
Horizontal(kind) == kind \in {"Rook", "Queen"}
Vertical(kind) == kind \in {"Rook", "Queen"}
Diagonal(kind) == kind \in {"Bishop", "Queen"}

\* the eight knight displacements
KnightOffsets ==
    {<<1, 2>>, <<1, -2>>, <<-1, 2>>, <<-1, -2>>,
     <<2, 1>>, <<2, -1>>, <<-2, 1>>, <<-2, -1>>}

(***************************************************************************)
(* C1: in every reachable state every existing piece has both coordinates  *)
(* x and y within [0,7].                                                   *)
(***************************************************************************)
C1_PositionOnBoard ==
    \A i \in Live : pieces[i].x \in 0 .. 7 /\ pieces[i].y \in 0 .. 7

\* two pieces live, one of them moved, and the last call was a moveTo off the board
C1_Witness ==
    /\ Cardinality(Live) = 2
    /\ \E i \in Live : pieces[i].hasMoved
    /\ thrown = OutOfBounds

(***************************************************************************)
(* C2: constructing a piece of any kind and colour at (x,y) succeeds iff   *)
(* x and y are both in [0,7]; otherwise it throws InvalidCoordinates and   *)
(* no piece comes into existence.                                          *)
(***************************************************************************)
C2_ConstructIffOnBoard ==
    [][pieces = << >> =>
        \A kind \in Kinds, col \in Color, posX \in AllCoords, posY \in AllCoords :
            Construct(1, kind, col, posX, posY) =>
                IF OnBoard(posX, posY)
                THEN /\ thrown' = NoException
                     /\ DOMAIN pieces' = {1}
                     /\ pieces'[1].kind = kind
                     /\ pieces'[1].color = col
                     /\ pieces'[1].x = posX
                     /\ pieces'[1].y = posY
                ELSE /\ thrown' = InvalidCoordinates
                     /\ pieces' = << >>]_vars

\* a construction has just been rejected: nothing lives
C2_Witness == thrown = InvalidCoordinates /\ pieces = << >>

(***************************************************************************)
(* C3: for a Rook, Bishop or Queen at (px,py) and any integer target       *)
(* (nx,ny), canMoveTo(nx,ny) is true iff the target is on the board,       *)
(* differs from (px,py), and lies on the same row with horizontal allowed, *)
(* on the same column with vertical allowed, or on a diagonal with         *)
(* diagonal allowed; it is false for the piece's own square.               *)
(***************************************************************************)
C3_SlidingCanMoveTo ==
    (ret.op = "canMoveTo" /\ pieces[ret.id].kind \in SlidingKinds) =>
        LET p == pieces[ret.id]
            nx == ret.newX
            ny == ret.newY
        IN  ret.value =
              ( /\ OnBoard(nx, ny)
                /\ <<nx, ny>> # <<p.x, p.y>>
                /\ \/ ny = p.y /\ Horizontal(p.kind)
                   \/ nx = p.x /\ Vertical(p.kind)
                   \/ abs(nx - p.x) = abs(ny - p.y) /\ Diagonal(p.kind) )

\* a Bishop that has moved to (2,0) is asked for (5,3) and answers true
C3_Witness ==
    /\ ret.op = "canMoveTo"
    /\ pieces[ret.id].kind = "Bishop"
    /\ pieces[ret.id].hasMoved
    /\ <<pieces[ret.id].x, pieces[ret.id].y>> = <<2, 0>>
    /\ <<ret.newX, ret.newY>> = <<5, 3>>
    /\ ret.value = TRUE

(***************************************************************************)
(* C4: for a Knight at (px,py) and any integer target (nx,ny),             *)
(* canMoveTo(nx,ny) is true iff the target is on the board and the         *)
(* displacement is one of the eight pairs (+-1,+-2), (+-2,+-1); it is      *)
(* false for every other target, the knight's own square included.         *)
(***************************************************************************)
C4_KnightCanMoveTo ==
    (ret.op = "canMoveTo" /\ pieces[ret.id].kind = "Knight") =>
        LET p == pieces[ret.id]
        IN  ret.value =
              ( /\ OnBoard(ret.newX, ret.newY)
                /\ <<ret.newX - p.x, ret.newY - p.y>> \in KnightOffsets )

\* a Knight at (4,4) is asked for (6,5) and answers true
C4_Witness ==
    /\ ret.op = "canMoveTo"
    /\ pieces[ret.id].kind = "Knight"
    /\ <<pieces[ret.id].x, pieces[ret.id].y>> = <<4, 4>>
    /\ <<ret.newX, ret.newY>> = <<6, 5>>
    /\ ret.value = TRUE

\* the movement capability profile of a piece
Profile(p) ==
    IF p.kind \in SlidingKinds
    THEN <<p.kind, p.canMoveHorizontally, p.canMoveVertically, p.canMoveDiagonally>>
    ELSE <<p.kind>>

(***************************************************************************)
(* C5: a moveTo(nx,ny) whose target is on the board and for which          *)
(* canMoveTo(nx,ny) is true succeeds; afterwards the piece is at (nx,ny)   *)
(* with hasMoved true, and its colour, its capability profile, every other *)
(* piece and both counters are unchanged.                                  *)
(***************************************************************************)
C5_MoveSucceedsAndFrame ==
    [][\A i \in Live, nx \in TestCoords, ny \in TestCoords :
          (OnBoard(nx, ny) /\ canMoveTo(pieces[i], nx, ny) /\ MoveTo(i, nx, ny)) =>
              /\ thrown' = NoException
              /\ DOMAIN pieces' = DOMAIN pieces
              /\ pieces'[i].x = nx
              /\ pieces'[i].y = ny
              /\ pieces'[i].hasMoved = TRUE
              /\ pieces'[i].color = pieces[i].color
              /\ Profile(pieces'[i]) = Profile(pieces[i])
              /\ \A j \in Live \ {i} : pieces'[j] = pieces[j]
              /\ whiteCount' = whiteCount
              /\ blackCount' = blackCount]_vars

\* a Rook has moved to (0,2) next to another piece that has not moved
C5_Witness ==
    \E i \in Live, j \in Live :
        /\ i # j
        /\ pieces[i].kind = "Rook"
        /\ pieces[i].hasMoved
        /\ <<pieces[i].x, pieces[i].y>> = <<0, 2>>
        /\ ~pieces[j].hasMoved
        /\ thrown = NoException

(***************************************************************************)
(* C6: moveTo reports two distinguishable errors: a target with a          *)
(* coordinate outside [0,7] fails with OutOfBounds (never IllegalMove), a  *)
(* target on the board for which canMoveTo is false (the piece's own       *)
(* square included) fails with IllegalMove (never OutOfBounds).            *)
(***************************************************************************)
C6_TwoErrorKinds ==
    [][1 \in Live =>
        \A nx \in AllCoords, ny \in AllCoords :
            MoveTo(1, nx, ny) =>
                /\ OutOfBounds # IllegalMove
                /\ ~OnBoard(nx, ny) => thrown' = OutOfBounds
                /\ (OnBoard(nx, ny) /\ ~canMoveTo(pieces[1], nx, ny)) => thrown' = IllegalMove
                /\ <<nx, ny>> = <<pieces[1].x, pieces[1].y>> => thrown' = IllegalMove]_vars

\* a piece that has moved before has just been refused an illegal move
C6_Witness == 1 \in Live /\ thrown = IllegalMove /\ pieces[1].hasMoved

(***************************************************************************)
(* C7: every moveTo that fails, with OutOfBounds or with IllegalMove,      *)
(* leaves the piece's position and hasMoved as they were before the call.  *)
(***************************************************************************)
C7_FailedMoveChangesNothing ==
    [][thrown' \in {OutOfBounds, IllegalMove} =>
          /\ DOMAIN pieces' = DOMAIN pieces
          /\ \A i \in Live :
                /\ pieces'[i].x = pieces[i].x
                /\ pieces'[i].y = pieces[i].y
                /\ pieces'[i].hasMoved = pieces[i].hasMoved]_vars

\* a piece that has not moved yet has just been refused a move off the board
C7_Witness == 1 \in Live /\ thrown = OutOfBounds /\ ~pieces[1].hasMoved

(***************************************************************************)
(* C8 as stated: hasMoved is false for every newly constructed piece,      *)
(* becomes true on a successful moveTo, and once true is never reset by    *)
(* any operation on the piece, assignment included.                        *)
(***************************************************************************)
C8_Original ==
    [][/\ \A i \in DOMAIN pieces' \ Live :
             (\A j \in Live : ~CopyConstruct(i, j)) => pieces'[i].hasMoved = FALSE
       /\ \A i \in Live \cap DOMAIN pieces' :
             /\ (thrown' = NoException /\ MoveTo(i, pieces'[i].x, pieces'[i].y))
                  => pieces'[i].hasMoved
             /\ pieces[i].hasMoved => pieces'[i].hasMoved]_vars

(***************************************************************************)
(* C8 amended: hasMoved is false for every piece constructed from          *)
(* coordinates and equals the original's for a copy; a successful moveTo   *)
(* sets it; once true it stays true under every operation on the piece     *)
(* except being assigned to, which overwrites it with the source's value.  *)
(***************************************************************************)
C8_HasMovedSticky ==
    [][/\ \A i \in DOMAIN pieces' \ Live :
             /\ (\A j \in Live : ~CopyConstruct(i, j)) => pieces'[i].hasMoved = FALSE
             /\ \A j \in Live :
                   CopyConstruct(i, j) => pieces'[i].hasMoved = pieces[j].hasMoved
       /\ \A i \in Live \cap DOMAIN pieces' :
             /\ (thrown' = NoException /\ MoveTo(i, pieces'[i].x, pieces'[i].y))
                  => pieces'[i].hasMoved
             /\ (pieces[i].hasMoved /\ ~pieces'[i].hasMoved) =>
                   \E j \in Live \ {i} :
                       /\ Assign(i, j)
                       /\ ~pieces[j].hasMoved
             /\ \A j \in Live :
                   Assign(i, j) => pieces'[i].hasMoved = pieces[j].hasMoved]_vars

\* a moved piece whose later move was refused is still moved, beside an unmoved one
C8_Witness ==
    \E i \in Live, j \in Live :
        /\ pieces[i].hasMoved
        /\ ~pieces[j].hasMoved
        /\ thrown = IllegalMove

(***************************************************************************)
(* C9: in every reachable state whiteCount is the number of live white     *)
(* pieces and blackCount the number of live black pieces; so a rejected    *)
(* construction changes neither, and destroying what was created restores  *)
(* both.                                                                   *)
(***************************************************************************)
LiveOf(col) == {i \in Live : pieces[i].color = col}

C9_CountersMatchLive ==
    /\ whiteCount = Cardinality(LiveOf(WHITE))
    /\ blackCount = Cardinality(LiveOf(BLACK))

\* a construction has just been rejected while one white piece lives
C9_Witness ==
    /\ thrown = InvalidCoordinates
    /\ Cardinality(Live) = 1
    /\ whiteCount = 1
    /\ blackCount = 0

(***************************************************************************)
(* C10 as stated: neither counter ever exceeds 16, so validateBoardState() *)
(* returns true in every reachable state.                                  *)
(***************************************************************************)
C10_Original ==
    /\ whiteCount <= 16
    /\ blackCount <= 16
    /\ ret.op = "validateBoardState" => ret.value = TRUE

(***************************************************************************)
(* C10 amended: nothing limits the number of live pieces; the call         *)
(* validateBoardState() returns true exactly when at most 16 white and at  *)
(* most 16 black pieces are live, and false once a 17th piece of one       *)
(* colour has been constructed.                                            *)
(***************************************************************************)
C10_ValidateReflectsLive ==
    ret.op = "validateBoardState" =>
        ret.value = ( /\ Cardinality(LiveOf(WHITE)) <= 16
                      /\ Cardinality(LiveOf(BLACK)) <= 16 )

\* seventeen white pieces live and validateBoardState() has answered false
C10_Witness ==
    /\ ret.op = "validateBoardState"
    /\ ret.value = FALSE
    /\ Cardinality(LiveOf(WHITE)) = 17

\* every object but i has the position and hasMoved it had before the step
OthersKept(i) ==
    /\ DOMAIN pieces' = DOMAIN pieces
    /\ \A k \in Live \ {i} :
          /\ pieces'[k].x = pieces[k].x
          /\ pieces'[k].y = pieces[k].y
          /\ pieces'[k].hasMoved = pieces[k].hasMoved

(***************************************************************************)
(* C11: a copy of a piece starts with the original's colour, position and  *)
(* hasMoved, and the copy leaves the original as it was; afterwards a      *)
(* moveTo on one of them, successful or failed, leaves the other's         *)
(* position and hasMoved unchanged.                                        *)
(***************************************************************************)
C11_CopyIndependence ==
    [][/\ \A j \in DOMAIN pieces' \ Live, i \in Live :
             CopyConstruct(j, i) =>
                 /\ pieces'[j].color = pieces[i].color
                 /\ pieces'[j].x = pieces[i].x
                 /\ pieces'[j].y = pieces[i].y
                 /\ pieces'[j].hasMoved = pieces[i].hasMoved
                 /\ pieces'[i] = pieces[i]
       /\ \A i \in Live :
             \/ OthersKept(i)
             \/ \A nx \in TestCoords, ny \in TestCoords : ~MoveTo(i, nx, ny)]_vars

\* as in testCopy: of two white Rooks one still stands unmoved on (0,0), the
\* other has moved to (2,0)
C11_Witness ==
    \E i \in Live, j \in Live :
        /\ pieces[i].kind = "Rook" /\ pieces[j].kind = "Rook"
        /\ pieces[i].color = WHITE /\ pieces[j].color = WHITE
        /\ <<pieces[i].x, pieces[i].y>> = <<0, 0>> /\ ~pieces[i].hasMoved
        /\ <<pieces[j].x, pieces[j].y>> = <<2, 0>> /\ pieces[j].hasMoved

(***************************************************************************)
(* C12 as stated: a piece's colour is fixed at creation and never changes, *)
(* whatever is done to the piece, being assigned to included.              *)
(***************************************************************************)
C12_Original ==
    [][\A i \in Live \cap DOMAIN pieces' : pieces'[i].color = pieces[i].color]_vars

(***************************************************************************)
(* C12 amended: a piece's colour is the one it was constructed with, or    *)
(* the original's for a copy, and it is unchanged by moves, failed moves   *)
(* and being copied from; only being assigned to changes it: operator=     *)
(* replaces the target's colour by the source's.                           *)
(***************************************************************************)
C12_ColorChangesOnlyByAssign ==
    [][/\ \A i \in DOMAIN pieces' \ Live :
             \A kind \in Kinds, col \in Color, posX \in TestCoords, posY \in TestCoords :
                 Construct(i, kind, col, posX, posY) => pieces'[i].color = col
       /\ \A i \in Live \cap DOMAIN pieces' :
             /\ pieces'[i].color # pieces[i].color =>
                   \E j \in Live \ {i} :
                       /\ Assign(i, j)
                       /\ pieces[j].color # pieces[i].color
             /\ \A j \in Live : Assign(i, j) => pieces'[i].color = pieces[j].color]_vars

\* a black piece that has moved lives beside a white piece of another class
C12_Witness ==
    \E i \in Live, j \in Live :
        /\ pieces[i].color = BLACK
        /\ pieces[i].hasMoved
        /\ pieces[j].color = WHITE
        /\ pieces[j].kind # pieces[i].kind
        /\ thrown = NoException

(***************************************************************************)
(* C13: for a Knight at any board position getPossibleMoveCount() returns  *)
(* the number of the eight knight offsets whose target lies on the board,  *)
(* which is the number of board squares (x,y) for which canMoveTo(x,y) is  *)
(* true; the call changes no state.                                        *)
(***************************************************************************)
C13_PossibleMoveCount ==
    [][ret'.op = "getPossibleMoveCount" =>
          LET p == pieces[ret'.id]
          IN  /\ p.kind = "Knight"
              /\ ret'.value =
                    Cardinality({o \in KnightOffsets : OnBoard(p.x + o[1], p.y + o[2])})
              /\ ret'.value =
                    Cardinality({sq \in (0 .. 7) \X (0 .. 7) : canMoveTo(p, sq[1], sq[2])})
              /\ pieces' = pieces
              /\ whiteCount' = whiteCount
              /\ blackCount' = blackCount]_vars

\* a Knight that has moved into the corner (0,0) reports two possible moves
C13_Witness ==
    /\ ret.op = "getPossibleMoveCount"
    /\ pieces[ret.id].kind = "Knight"
    /\ pieces[ret.id].hasMoved
    /\ <<pieces[ret.id].x, pieces[ret.id].y>> = <<0, 0>>
    /\ ret.value = 2

====
